---- MODULE Spec2Model ----
(***************************************************************************)
(* Model of the expect-test snapshot engine (src/expect_test.py).          *)
(*                                                                         *)
(* Python values are records of one shape, V(t, n, s, keys, items):        *)
(*   t      the Python type ("none", "bool", "int", "float", "str",        *)
(*          "list", "tuple", "dict", "object", "opaque", "raise")          *)
(*   n      the numeric value of a number (a float 1.0 has n = 1)          *)
(*   s      the text of a string, "nan" for float('nan'), the display form *)
(*          of an opaque object, the class name of a raised exception      *)
(*   keys   the keys of a dict / attribute names of an object, in          *)
(*          insertion order                                                *)
(*   items  the elements of a list or tuple, the values of a dict          *)
(*                                                                         *)
(* JSON text is represented by the value tree json.load returns for it,    *)
(* so json_dumps below is json.dumps followed by the parse of its output.  *)
(* An md5 digest is represented by the text it digests (no collisions).    *)
(* The entry fields timestamp, file_path, line_number and function_name    *)
(* are written by the engine and never read by it; they are left out.      *)
(***************************************************************************)
EXTENDS Integers, Sequences, FiniteSets, TLC

VARIABLES file, snapshots, pending_updates, config, pc, last, run, procs,
          deciding

vars == <<file, snapshots, pending_updates, config, pc, last, run, procs,
          deciding>>

\* run is the position of the example runner (the __main__ block of
\* test_examples.py) and procs the managers of calls that run concurrently;
\* deciding is the call of _handle_conflict that another thread can
\* interleave with; only the specifications about them move these three
others == <<run, procs, deciding>>

(* ---------------------------- bounds ----------------------------------- *)

\* non-terminal answers ('d' or invalid) one interactive prompt loop may take
MaxPrompts == 2

\* test names sharing the one store file
Names == {"t1", "t2"}

(* ---------------------------- values ----------------------------------- *)

V(t, n, s, keys, items) == [t |-> t, n |-> n, s |-> s, keys |-> keys, items |-> items]

PyNone == V("none", 0, "", <<>>, <<>>)
PyBool(b) == V("bool", IF b THEN 1 ELSE 0, "", <<>>, <<>>)
PyInt(i) == V("int", i, "", <<>>, <<>>)
PyFloat(i) == V("float", i, "", <<>>, <<>>)
PyNaN == V("float", 0, "nan", <<>>, <<>>)
PyStr(s) == V("str", 0, s, <<>>, <<>>)
PyList(items) == V("list", 0, "", <<>>, items)
PyTuple(items) == V("tuple", 0, "", <<>>, items)
PyDict(keys, items) == V("dict", 0, "", keys, items)
\* an instance with a __dict__ (attribute names are strings)
PyObject(keys, items) == V("object", 0, "", keys, items)
\* a value with no __dict__ and no JSON type (a set, a Decimal): s is str(value)
PyOpaque(s) == V("opaque", 0, s, <<>>, <<>>)
\* the computation raised: class name and str(e)
Raise(kind, msg) == V("raise", 0, kind, <<>>, <<PyStr(msg)>>)
\* no value at all (an unbound local, an absent field of a message)
NoValue == V("absent", 0, "", <<>>, <<>>)

\* Results the wrapped computation can produce
Results ==
    { PyNone,
      PyTuple(<<PyInt(1)>>),
      PyDict(<<PyStr("a"), PyStr("b")>>, <<PyInt(1), PyInt(2)>>),
      PyDict(<<PyStr("b"), PyStr("a")>>, <<PyInt(2), PyInt(1)>>),
      PyDict(<<PyInt(1)>>, <<PyStr("a")>>),
      Raise("ZeroDivisionError", "division by zero") }

(* ------------------------ _serialize_value ------------------------------ *)

RECURSIVE serialize_value(_)
serialize_value(value) ==
    CASE value.t = "none" -> PyNone
      [] value.t \in {"str", "int", "float", "bool"} -> value
      [] value.t \in {"list", "tuple"} ->
            PyList([i \in DOMAIN value.items |-> serialize_value(value.items[i])])
      [] value.t = "dict" ->
            PyDict(value.keys,
                   [i \in DOMAIN value.items |-> serialize_value(value.items[i])])
      [] value.t = "object" ->
            serialize_value(PyDict(value.keys, value.items))
      [] OTHER -> PyStr(value.s)

\* exception_value that records only the class of the exception
exception_value_no_message(e) ==
    PyDict(<<PyStr("exception")>>, <<PyStr(e.s)>>)

\* the snapshot value of a raised exception
exception_value(e) ==
    PyDict(<<PyStr("exception"), PyStr("message")>>, <<PyStr(e.s), e.items[1]>>)

(* ------------------- Python == on serialized values --------------------- *)

IsNumber(v) == v.t \in {"int", "bool", "float"}

\* == that compares the items of two dicts in insertion order
RECURSIVE PyEq_ordered(_, _)
PyEq_ordered(a, b) ==
    CASE IsNumber(a) /\ IsNumber(b) ->
            a.s # "nan" /\ b.s # "nan" /\ a.n = b.n
      [] a.t = "none" /\ b.t = "none" -> TRUE
      [] a.t = "str" /\ b.t = "str" -> a.s = b.s
      [] a.t = "list" /\ b.t = "list" ->
            /\ Len(a.items) = Len(b.items)
            /\ \A i \in DOMAIN a.items : PyEq_ordered(a.items[i], b.items[i])
      [] a.t = "dict" /\ b.t = "dict" ->
            /\ Len(a.keys) = Len(b.keys)
            /\ \A i \in DOMAIN a.keys :
                  /\ PyEq_ordered(a.keys[i], b.keys[i])
                  /\ PyEq_ordered(a.items[i], b.items[i])
      [] OTHER -> FALSE

RECURSIVE PyEq(_, _)
PyEq(a, b) ==
    CASE IsNumber(a) /\ IsNumber(b) ->
            \* bool is an int, 1 == 1.0 == True; nan equals nothing
            a.s # "nan" /\ b.s # "nan" /\ a.n = b.n
      [] a.t = "none" /\ b.t = "none" -> TRUE
      [] a.t = "str" /\ b.t = "str" -> a.s = b.s
      [] a.t = "list" /\ b.t = "list" ->
            /\ Len(a.items) = Len(b.items)
            /\ \A i \in DOMAIN a.items : PyEq(a.items[i], b.items[i])
      [] a.t = "dict" /\ b.t = "dict" ->
            /\ Len(a.keys) = Len(b.keys)
            /\ \A i \in DOMAIN a.keys : \E j \in DOMAIN b.keys :
                  PyEq(a.keys[i], b.keys[j]) /\ PyEq(a.items[i], b.items[j])
      [] OTHER -> FALSE

(* --------------------------- json.dumps --------------------------------- *)

\* the strings used as mapping keys, in lexicographic order
KeyOrder == <<"1", "a", "b", "exception", "message">>

StrRank(s) == CHOOSE i \in DOMAIN KeyOrder : KeyOrder[i] = s

\* str(int) of the integers used as mapping keys
IntStr == <<"1">>

\* JSON object keys are strings: the encoder converts the others
KeyStr(k) ==
    CASE k.t = "str" -> k
      [] k.t = "int" -> PyStr(IntStr[k.n])
      [] k.t = "bool" -> PyStr(IF k.n = 1 THEN "true" ELSE "false")
      [] OTHER -> PyStr("null")

\* sorted(dct.items()) on keys of one type
KeyLess(k1, k2) ==
    IF k1.t = "str" THEN StrRank(k1.s) < StrRank(k2.s) ELSE k1.n < k2.n

SortPerm(keys) ==
    CHOOSE p \in [DOMAIN keys -> DOMAIN keys] :
        /\ \A i, j \in DOMAIN keys : i # j => p[i] # p[j]
        /\ \A i, j \in DOMAIN keys : i < j => KeyLess(keys[p[i]], keys[p[j]])

RECURSIVE json_dumps(_)
json_dumps(v) ==
    CASE v.t = "list" ->
            PyList([i \in DOMAIN v.items |-> json_dumps(v.items[i])])
      [] v.t = "dict" ->
            LET p == SortPerm(v.keys)
            IN  PyDict([i \in DOMAIN v.keys |-> KeyStr(v.keys[p[i]])],
                       [i \in DOMAIN v.keys |-> json_dumps(v.items[p[i]])])
      [] OTHER -> v

\* hashlib.md5(json.dumps(value, sort_keys=True, default=str).encode()).hexdigest()
result_hash(serialized_result) == [md5 |-> json_dumps(serialized_result)]

(* ------------------------- SnapshotManager ------------------------------ *)

\* a mapping from test name to snapshot entry, as a function on a subset of Names
Empty == [n \in {} |-> 0]

Update(m, p) ==
    [n \in (DOMAIN m) \cup (DOMAIN p) |-> IF n \in DOMAIN p THEN p[n] ELSE m[n]]

\* the store file: missing, unparseable, or a JSON object
FileMissing == [st |-> "missing", data |-> Empty]
FileCorrupt == [st |-> "corrupt", data |-> Empty]
FileOk(data) == [st |-> "ok", data |-> data]
\* bytes that are not text in the encoding open(.., 'r') decodes with
FileUndecodable == [st |-> "undecodable", data |-> Empty]

Manager(s, p) == [snapshots |-> s, pending_updates |-> p]

\* _load_snapshots: a missing file and an unparseable file both give {}
load_snapshots(f) == IF f.st = "ok" THEN f.data ELSE Empty

\* the exception _load_snapshots lets through: it catches json.JSONDecodeError
\* only, and f.read() inside json.load raises UnicodeDecodeError first
load_error(f) == IF f.st = "undecodable" THEN "UnicodeDecodeError" ELSE "none"

\* SnapshotManager.__init__
new_manager(f) == Manager(load_snapshots(f), Empty)

\* get_snapshot that looks in the loaded snapshots before the pending buffer
get_snapshot_durable_first(m, test_name) ==
    IF test_name \in DOMAIN m.snapshots
    THEN m.snapshots[test_name].value
    ELSE IF test_name \in DOMAIN m.pending_updates
         THEN m.pending_updates[test_name].value
         ELSE PyNone

get_snapshot(m, test_name) ==
    IF test_name \in DOMAIN m.pending_updates
    THEN m.pending_updates[test_name].value
    ELSE IF test_name \in DOMAIN m.snapshots
         THEN m.snapshots[test_name].value
         ELSE PyNone

\* update_snapshot that keeps the hash of the entry it replaces
update_snapshot_keeps_hash(m, test_name, value, metadata) ==
    Manager(m.snapshots,
            Update(m.pending_updates,
                   [n \in {test_name} |->
                      [value |-> value,
                       hash |-> IF test_name \in DOMAIN m.snapshots
                                THEN m.snapshots[test_name].hash
                                ELSE metadata.hash]]))

update_snapshot(m, test_name, value, metadata) ==
    Manager(m.snapshots,
            Update(m.pending_updates,
                   [n \in {test_name} |-> [value |-> value, hash |-> metadata.hash]]))

has_snapshot(m, test_name) ==
    test_name \in DOMAIN m.snapshots \/ test_name \in DOMAIN m.pending_updates

\* an exception: its class, the test it names, the values its message shows
Exc(type, test, expected, got) ==
    [type |-> type, test |-> test, expected |-> expected, got |-> got]

NoExc == Exc("none", "", NoValue, NoValue)

\* what the write of the store file can do: succeed, fail before the file is
\* opened (mkdir or open raises), or fail after open(.., 'w') truncated it
WriteOutcomes == {"ok", "open_fails", "dump_fails"}

\* json.dump(self.snapshots, f, indent=2, sort_keys=True, default=str)
dump_snapshots(m) ==
    [n \in DOMAIN m |-> [value |-> json_dumps(m[n].value), hash |-> m[n].hash]]

\* _save_snapshots that writes the pending buffer without merging it into the
\* loaded snapshots
save_snapshots_no_merge(m, f, wf) ==
    CASE wf = "open_fails" ->
           [m |-> m, file |-> f,
            exc |-> Exc("OSError", "", NoValue, NoValue), writes |-> 0]
      [] wf = "dump_fails" ->
           [m |-> m, file |-> FileCorrupt,
            exc |-> Exc("OSError", "", NoValue, NoValue), writes |-> 1]
      [] OTHER ->
           [m |-> Manager(m.pending_updates, Empty),
            file |-> FileOk(dump_snapshots(m.pending_updates)),
            exc |-> NoExc, writes |-> 1]

\* _save_snapshots: merge, open for writing (truncates), dump, clear
save_snapshots(m, f, wf) ==
    LET merged == Update(m.snapshots, m.pending_updates)
    IN  CASE wf = "open_fails" ->
               [m |-> Manager(merged, m.pending_updates), file |-> f,
                exc |-> Exc("OSError", "", NoValue, NoValue), writes |-> 0]
          [] wf = "dump_fails" ->
               [m |-> Manager(merged, m.pending_updates), file |-> FileCorrupt,
                exc |-> Exc("OSError", "", NoValue, NoValue), writes |-> 1]
          [] OTHER ->
               [m |-> Manager(merged, Empty), file |-> FileOk(dump_snapshots(merged)),
                exc |-> NoExc, writes |-> 1]

\* commit_updates that saves even when nothing is pending
commit_updates_always(m, f, wf) == save_snapshots(m, f, wf)

commit_updates(m, f, wf) ==
    IF m.pending_updates # Empty
    THEN save_snapshots(m, f, wf)
    ELSE [m |-> m, file |-> f, exc |-> NoExc, writes |-> 0]

(* --------------------------- configuration ------------------------------ *)

ConflictResolution == {"interactive", "accept_new", "keep_old", "fail"}

\* ExpectTestConfig.__init__, ci_mode from the CI environment variable.  The
\* fields snapshot_dir, auto_accept and show_diffs are never read by a decision.
new_config(ci) ==
    [conflict_resolution |-> "interactive", ci_mode |-> ci]

(* ------------------------- _handle_conflict ----------------------------- *)

\* _handle_conflict without the ci_mode test
handle_conflict_no_ci(cfg) ==
    CASE cfg.conflict_resolution = "accept_new" -> "accept"
      [] cfg.conflict_resolution = "keep_old" -> "reject"
      [] cfg.conflict_resolution = "fail" -> "raise"
      [] OTHER -> "input"

\* the decision up to the first input(): "accept" is return True, "reject" is
\* return False, "raise" is the AssertionError of mode FAIL, "input" is the
\* prompt loop
handle_conflict(cfg) ==
    IF cfg.ci_mode THEN "reject"
    ELSE CASE cfg.conflict_resolution = "accept_new" -> "accept"
           [] cfg.conflict_resolution = "keep_old" -> "reject"
           [] cfg.conflict_resolution = "fail" -> "raise"
           [] OTHER -> "input"

\* The tests of _handle_conflict in the order it makes them, each a read of
\* the global config: config.ci_mode, then config.conflict_resolution against
\* ACCEPT_NEW, KEEP_OLD, FAIL and INTERACTIVE.
Reads == <<"ci_mode", "accept_new", "keep_old", "fail", "interactive">>

\* no call of _handle_conflict is in progress and none has returned.  at is
\* the index in Reads of the next test (0 outside a call), seen the modes
\* that were in force since the call began, outcome what the call decided.
NoDecision == [at |-> 0, seen |-> {}, outcome |-> "none"]

(* ----------------------------- engine ----------------------------------- *)

\* What one call of an engine did, as its caller and the terminal see it:
\*   engine    "expect", "expect_inline", or "none" after a step that is no
\*             evaluation
\*   raw       the computation's result (what the with-body did, for inline)
\*   ser       serialized_result / self.captured
\*   had       has_snapshot(test_name)
\*   existing  get_snapshot(test_name) when had
\*   conflict  existing != serialized_result
\*   decision  what _handle_conflict did
\*   report    the line printed: "created", "passed", "updated"
\*   exc       the exception that left the call
\*   ret       the value returned
\*   prompts   calls of input()
\*   answer    the last line input() returned
\*   warned    the could-not-parse warning was printed
\*   writes    times the store file was opened for writing
NoCall ==
    [engine |-> "none", name |-> "", raw |-> NoValue, ser |-> NoValue,
     had |-> FALSE, existing |-> NoValue, conflict |-> FALSE,
     decision |-> "none", report |-> "none", exc |-> NoExc, ret |-> NoValue,
     prompts |-> 0, answer |-> "", warned |-> FALSE, writes |-> 0]

\* the call ended in SnapshotManager(...) raising
load_failed(engine, name, f) ==
    [file |-> f, snapshots |-> Empty, pending_updates |-> Empty, pc |-> "idle",
     last |-> [NoCall EXCEPT !.engine = engine, !.name = name,
                             !.exc = Exc(load_error(f), "", NoValue, NoValue)]]

\* the state of the call after has_snapshot / get_snapshot / the comparison
Compared(engine, name, raw, ser, m, f) ==
    LET had == has_snapshot(m, name)
        existing == IF had THEN get_snapshot(m, name) ELSE NoValue
    IN  [NoCall EXCEPT !.engine = engine, !.name = name, !.raw = raw,
                       !.ser = ser, !.had = had, !.existing = existing,
                       !.conflict = had /\ ~PyEq(existing, ser),
                       !.warned = (f.st = "corrupt")]

Post(f, m, p, o) ==
    [file |-> f, snapshots |-> m.snapshots,
     pending_updates |-> m.pending_updates, pc |-> p, last |-> o]

\* the end of the call.  expect: "return result", where result is unbound
\* when the computation raised.  expect_inline: __exit__ returns True to
\* suppress the exception of the with-body, None otherwise.
return_result(o) ==
    IF o.engine = "expect"
    THEN IF o.raw.t = "raise"
         THEN [o EXCEPT !.exc = Exc("UnboundLocalError", "", NoValue, NoValue)]
         ELSE [o EXCEPT !.ret = o.raw]
    ELSE [o EXCEPT !.ret = IF o.raw.t = "raise" THEN PyBool(TRUE) ELSE PyNone]

\* store_new that catches the exception of the write and goes on
store_new_swallows(o, m, f, wf, report) ==
    LET m1 == update_snapshot(m, o.name, o.ser, [hash |-> result_hash(o.ser)])
        c == commit_updates(m1, f, wf)
    IN  Post(c.file, c.m, "idle",
             return_result([o EXCEPT !.report = report, !.writes = c.writes]))

\* update_snapshot, commit_updates, print, return
store_new(o, m, f, wf, report) ==
    LET m1 == update_snapshot(m, o.name, o.ser, [hash |-> result_hash(o.ser)])
        c == commit_updates(m1, f, wf)
    IN  IF c.exc.type # "none"
        THEN Post(c.file, c.m, "idle", [o EXCEPT !.exc = c.exc, !.writes = c.writes])
        ELSE Post(c.file, c.m, "idle",
                  return_result([o EXCEPT !.report = report, !.writes = c.writes]))

\* a rejection that stages the new value before it raises
reject_stages(o, m, f) ==
    LET m1 == update_snapshot(m, o.name, o.ser, [hash |-> result_hash(o.ser)])
    IN  Post(f, m1, "idle",
             [o EXCEPT !.exc = Exc("AssertionError", o.name, o.existing, o.ser)])

\* _handle_conflict returned False
reject(o, m, f) ==
    Post(f, m, "idle",
         [o EXCEPT !.exc =
            IF o.engine = "expect"
            THEN Exc("AssertionError", o.name, o.existing, o.ser)
            ELSE Exc("AssertionError", o.name, NoValue, NoValue)])

\* the branch "existing != serialized_result"
conflict(o, m, f, cfg, wf) ==
    LET d == handle_conflict(cfg)
        od == [o EXCEPT !.decision = d]
    IN  CASE d = "accept" -> store_new(od, m, f, wf, "updated")
          [] d = "reject" -> reject(od, m, f)
          [] d = "raise" ->
               Post(f, m, "idle",
                    [od EXCEPT !.exc = Exc("AssertionError", o.name, NoValue, NoValue)])
          [] OTHER -> Post(f, m, "prompt", [od EXCEPT !.prompts = 1])

\* has_snapshot ... else ... of both engines
compare(o, m, f, cfg, wf) ==
    IF o.had
    THEN IF o.conflict
         THEN conflict(o, m, f, cfg, wf)
         ELSE Post(f, m, "idle", return_result([o EXCEPT !.report = "passed"]))
    ELSE store_new(o, m, f, wf, "created")

\* expect(test_name)(func)()
wrapper(test_name, result, f, cfg, wf) ==
    LET manager == new_manager(f)
        serialized_result ==
            IF result.t = "raise" THEN exception_value(result)
            ELSE serialize_value(result)
    IN  IF load_error(f) # "none"
        THEN load_failed("expect", test_name, f)
        ELSE compare(Compared("expect", test_name, result, serialized_result,
                              manager, f),
                     manager, f, cfg, wf)

\* with expect_inline(name) as e: body.  body is the value the body passes to
\* e.capture, the exception it raises, or NoValue when it does neither
inline_exit(name, body, f, cfg, wf) ==
    LET manager == new_manager(f)
        captured ==
            IF body.t \in {"raise", "absent"} THEN PyNone ELSE serialize_value(body)
        exc_type == body.t = "raise"
        ser == IF exc_type THEN exception_value(body) ELSE captured
        o == Compared("expect_inline", name, body, ser, manager, f)
    IN  IF load_error(f) # "none"
        THEN load_failed("expect_inline", name, f)
        ELSE IF captured.t = "none" /\ ~exc_type
        THEN Post(f, manager, "idle",
                  [NoCall EXCEPT !.engine = "expect_inline", !.name = name,
                                 !.raw = body, !.ser = captured,
                                 !.warned = (f.st = "corrupt"),
                                 !.exc = Exc("ValueError", name, NoValue, NoValue)])
        ELSE compare(o, manager, f, cfg, wf)

\* one answer to input() in the loop of _handle_conflict
Responses == {"y", "Y", "n", "d", "q", "x"}

lower(r) == IF r = "Y" THEN "y" ELSE r

\* a prompt loop that takes every answer other than y, d and q for a no
prompt_invalid_rejects(o, m, f, response, wf) ==
    LET r == lower(response)
        oa == [o EXCEPT !.answer = response]
    IN  CASE r = "y" -> store_new([oa EXCEPT !.decision = "accept"], m, f, wf, "updated")
          [] r = "q" ->
               Post(f, m, "exited",
                    [oa EXCEPT !.decision = "exit",
                               !.exc = Exc("SystemExit", "", NoValue, NoValue)])
          [] r = "d" -> Post(f, m, "prompt", [oa EXCEPT !.prompts = o.prompts + 1])
          [] OTHER -> reject([oa EXCEPT !.decision = "reject"], m, f)

prompt(o, m, f, response, wf) ==
    LET r == lower(response)
        oa == [o EXCEPT !.answer = response]
    IN  CASE r = "y" -> store_new([oa EXCEPT !.decision = "accept"], m, f, wf, "updated")
          [] r = "n" -> reject([oa EXCEPT !.decision = "reject"], m, f)
          [] r = "q" ->
               Post(f, m, "exited",
                    [oa EXCEPT !.decision = "exit",
                               !.exc = Exc("SystemExit", "", NoValue, NoValue)])
          [] OTHER -> Post(f, m, "prompt", [oa EXCEPT !.prompts = o.prompts + 1])

(* ----------------------------- actions ---------------------------------- *)

\* wf is the outcome of the write of the store file, when the call writes
Apply(post, wf) ==
    /\ wf # "ok" => post.pending_updates # Empty
    /\ file' = post.file
    /\ snapshots' = post.snapshots
    /\ pending_updates' = post.pending_updates
    /\ pc' = post.pc
    /\ last' = post.last
    /\ UNCHANGED others

Init ==
    /\ file = FileMissing
    /\ snapshots = Empty
    /\ pending_updates = Empty
    /\ config \in {new_config(ci) : ci \in BOOLEAN}
    /\ pc = "idle"
    /\ last = NoCall
    /\ run = 0
    /\ procs = <<>>
    /\ deciding = NoDecision

\* a test decorated with @expect(test_name) is called
ExpectWrapper(test_name, result, wf) ==
    /\ pc = "idle"
    /\ Apply(wrapper(test_name, result, file, config, wf), wf)
    /\ UNCHANGED config

\* a with expect_inline(name) block runs
ExpectInline(name, body, wf) ==
    /\ pc = "idle"
    /\ Apply(inline_exit(name, body, file, config, wf), wf)
    /\ UNCHANGED config

\* the user answers the prompt the conflict is waiting on
Prompt(response, wf) ==
    /\ pc = "prompt"
    /\ lower(response) \in {"y", "n", "q"} \/ last.prompts <= MaxPrompts
    /\ Apply(prompt(last, Manager(snapshots, pending_updates), file, response, wf), wf)
    /\ UNCHANGED config

SetConflictResolution(strategy) ==
    /\ pc = "idle"
    /\ config' = [config EXCEPT !.conflict_resolution = strategy]
    /\ last' = NoCall
    /\ UNCHANGED <<file, snapshots, pending_updates, pc, others>>

AutoAccept(enabled) ==
    /\ pc = "idle"
    /\ config' = [config EXCEPT
                    !.conflict_resolution = IF enabled THEN "accept_new" ELSE @]
    /\ last' = NoCall
    /\ UNCHANGED <<file, snapshots, pending_updates, pc, others>>

\* a new process imports the module: a new config, no manager; the store
\* file is what the earlier processes left
ProcessStart(ci) ==
    /\ config' = new_config(ci)
    /\ snapshots' = Empty
    /\ pending_updates' = Empty
    /\ pc' = "idle"
    /\ last' = NoCall
    /\ UNCHANGED <<file, others>>

Next ==
    \/ \E n \in Names, r \in Results, wf \in WriteOutcomes : ExpectWrapper(n, r, wf)
    \/ \E n \in Names, b \in Results \cup {NoValue}, wf \in WriteOutcomes :
          ExpectInline(n, b, wf)
    \/ \E r \in Responses, wf \in WriteOutcomes : Prompt(r, wf)
    \/ \E s \in ConflictResolution : SetConflictResolution(s)
    \/ \E e \in BOOLEAN : AutoAccept(e)
    \/ \E ci \in BOOLEAN : ProcessStart(ci)

Spec == Init /\ [][Next]_vars

(* -------------------- the store file a process finds -------------------- *)

\* The first process of Spec finds no store file.  A process can also find
\* what earlier runs or other programs left at the path: a truncated or
\* otherwise invalid JSON text, bytes that do not decode, or a store.
LoadFiles ==
    { FileMissing, FileCorrupt, FileUndecodable,
      FileOk([n \in {"t1"} |->
                [value |-> PyList(<<PyInt(1)>>),
                 hash |-> result_hash(PyList(<<PyInt(1)>>))]]) }

InitLoad ==
    /\ file \in LoadFiles
    /\ snapshots = Empty
    /\ pending_updates = Empty
    /\ config \in {new_config(ci) : ci \in BOOLEAN}
    /\ pc = "idle"
    /\ last = NoCall
    /\ run = 0
    /\ procs = <<>>
    /\ deciding = NoDecision

SpecLoad == InitLoad /\ [][Next]_vars

TypeOK ==
    /\ file.st \in {"missing", "corrupt", "undecodable", "ok"}
    /\ DOMAIN file.data \subseteq Names
    /\ pc \in {"idle", "prompt", "exited"}
    /\ config.conflict_resolution \in ConflictResolution

(* ------------------- the SnapshotManager on its own --------------------- *)

\* One SnapshotManager driven through its methods by any caller: the
\* variables snapshots and pending_updates are its two dicts and last is the
\* result of the method just called (engine names the method).

\* values staged
StoreValues ==
    { PyNone, PyList(<<PyInt(1)>>), PyDict(<<PyInt(1)>>, <<PyStr("a")>>) }

StoreCall(method, name) == [NoCall EXCEPT !.engine = method, !.name = name]

InitStore ==
    /\ file = FileMissing
    /\ snapshots = Empty
    /\ pending_updates = Empty
    /\ config = new_config(FALSE)
    /\ pc = "idle"
    /\ last = StoreCall("open", "")
    /\ run = 0
    /\ procs = <<>>
    /\ deciding = NoDecision

\* SnapshotManager(snapshot_file)
StoreOpen ==
    /\ snapshots' = new_manager(file).snapshots
    /\ pending_updates' = new_manager(file).pending_updates
    /\ last' = [StoreCall("open", "") EXCEPT !.warned = (file.st = "corrupt")]
    /\ UNCHANGED <<file, config, pc, others>>

\* manager.update_snapshot(name, value, metadata)
StoreStage(name, value) ==
    LET m == update_snapshot(Manager(snapshots, pending_updates), name, value,
                             [hash |-> result_hash(value)])
    IN  /\ snapshots' = m.snapshots
        /\ pending_updates' = m.pending_updates
        /\ last' = [StoreCall("stage", name) EXCEPT !.ser = value]
        /\ UNCHANGED <<file, config, pc, others>>

\* manager.get_snapshot(name)
StoreGet(name) ==
    /\ last' = [StoreCall("get", name) EXCEPT
                  !.ret = get_snapshot(Manager(snapshots, pending_updates), name)]
    /\ UNCHANGED <<file, snapshots, pending_updates, config, pc, others>>

\* manager.has_snapshot(name)
StoreHas(name) ==
    /\ last' = [StoreCall("has", name) EXCEPT
                  !.had = has_snapshot(Manager(snapshots, pending_updates), name)]
    /\ UNCHANGED <<file, snapshots, pending_updates, config, pc, others>>

\* manager.commit_updates()
StoreCommit(wf) ==
    LET c == commit_updates(Manager(snapshots, pending_updates), file, wf)
    IN  /\ wf # "ok" => c.exc.type = "OSError"
        /\ file' = c.file
        /\ snapshots' = c.m.snapshots
        /\ pending_updates' = c.m.pending_updates
        /\ last' = [StoreCall("commit", "") EXCEPT !.exc = c.exc, !.writes = c.writes]
        /\ UNCHANGED <<config, pc, others>>

NextStore ==
    \/ StoreOpen
    \/ \E n \in Names, v \in StoreValues : StoreStage(n, v)
    \/ \E n \in Names : StoreGet(n)
    \/ \E n \in Names : StoreHas(n)
    \/ \E wf \in WriteOutcomes : StoreCommit(wf)

SpecStore == InitStore /\ [][NextStore]_vars

(* --------------------- the run of test_examples.py ---------------------- *)

\* python test_examples.py: the statements of the __main__ block in order.
\* result is what the test's body returns, captures or raises (the dicts the
\* tests build are abbreviated to one entry each); guarded tells whether the
\* call stands inside try: ... except: pass.
Statement(engine, name, result, guarded) ==
    [engine |-> engine, name |-> name, result |-> result, guarded |-> guarded]

Main ==
    << Statement("expect", "fibonacci_15", PyInt(610), FALSE),
       Statement("expect", "fibonacci_sequence",
                 PyList(<<PyInt(0), PyInt(1), PyInt(1), PyInt(2), PyInt(3),
                          PyInt(5), PyInt(8), PyInt(13), PyInt(21), PyInt(34)>>),
                 FALSE),
       Statement("expect", "orderbook_simple",
                 PyDict(<<PyStr("a")>>, <<PyFloat(1)>>), FALSE),
       Statement("expect_inline", "inline_calculation",
                 PyDict(<<PyStr("a")>>, <<PyInt(4950)>>), FALSE),
       Statement("expect", "division_by_zero",
                 Raise("ZeroDivisionError", "division by zero"), TRUE),
       Statement("expect", "rounding_table",
                 PyDict(<<PyStr("a")>>, <<PyStr("Tested 9 values")>>), FALSE),
       Statement("expect", "counter_operations",
                 PyDict(<<PyStr("a")>>, <<PyInt(10)>>), FALSE),
       Statement("expect", "nested_structure",
                 PyDict(<<PyStr("a")>>, <<PyStr("1.0.0")>>), FALSE) >>

\* how many baselines of the store differ from what the tests now produce
MaxChanged == 2

\* the store an earlier run of the same tests left: the entries of the names
\* in old hold a value the test no longer produces
RunStore(old) ==
    LET ser(i) == IF Main[i].result.t = "raise"
                  THEN exception_value(Main[i].result)
                  ELSE serialize_value(Main[i].result)
        val(i) == IF Main[i].name \in old THEN PyInt(0) ELSE ser(i)
        idx(n) == CHOOSE i \in DOMAIN Main : Main[i].name = n
    IN  FileOk(dump_snapshots(
            [n \in {Main[i].name : i \in DOMAIN Main} |->
                [value |-> val(idx(n)), hash |-> result_hash(val(idx(n)))]]))

InitRun ==
    /\ file \in {FileMissing} \cup
                { RunStore(old) : old \in { o \in SUBSET {Main[i].name : i \in DOMAIN Main} :
                                                Cardinality(o) <= MaxChanged } }
    /\ snapshots = Empty
    /\ pending_updates = Empty
    /\ config \in {new_config(ci) : ci \in BOOLEAN}
    /\ pc = "idle"
    /\ last = NoCall
    /\ run = 1
    /\ procs = <<>>
    /\ deciding = NoDecision

\* what the __main__ block does with the outcome of a call: wait on input(),
\* go on to the next statement when the call returned or its exception was
\* caught by the bare except, and end the process on an exception (SystemExit
\* included) that nothing catches
Dispatch(post, wf) ==
    LET raised == post.last.exc.type # "none"
        goes_on == post.pc # "prompt" /\ (~raised \/ Main[run].guarded)
    IN  /\ wf # "ok" => post.pending_updates # Empty
        /\ file' = post.file
        /\ snapshots' = post.snapshots
        /\ pending_updates' = post.pending_updates
        /\ last' = post.last
        /\ pc' = IF post.pc = "prompt" THEN "prompt"
                 ELSE IF goes_on THEN "idle" ELSE "exited"
        /\ run' = IF goes_on THEN run + 1 ELSE run
        /\ UNCHANGED <<config, procs, deciding>>

\* the next statement of the __main__ block is executed
RunStatement(wf) ==
    /\ pc = "idle"
    /\ run \in DOMAIN Main
    /\ Dispatch(IF Main[run].engine = "expect"
                THEN wrapper(Main[run].name, Main[run].result, file, config, wf)
                ELSE inline_exit(Main[run].name, Main[run].result, file, config, wf),
                wf)

\* the user answers the prompt of the statement being executed
RunPrompt(response, wf) ==
    /\ pc = "prompt"
    /\ run \in DOMAIN Main
    /\ lower(response) \in {"y", "n", "q"} \/ last.prompts <= MaxPrompts
    /\ Dispatch(prompt(last, Manager(snapshots, pending_updates), file, response, wf),
                wf)

NextRun ==
    \/ \E wf \in WriteOutcomes : RunStatement(wf)
    \/ \E r \in Responses, wf \in WriteOutcomes : RunPrompt(r, wf)

SpecRun == InitRun /\ [][NextRun]_vars

(* ------------- two evaluations in parallel on one store file ----------- *)

\* A host runner evaluates two tests of one module at the same time, test
\* "t1" in process 1 and test "t2" in process 2.  Each call builds its own
\* SnapshotManager; the store file is all they share, and nothing in the
\* code locks it.  procs[i] is the call of process i: its position, its
\* manager's two dicts, and whether its commit wrote the file.
Procs == {1, 2}

ConcName(i) == IF i = 1 THEN "t1" ELSE "t2"

ConcResults == { PyTuple(<<PyInt(1)>>), PyDict(<<PyInt(1)>>, <<PyStr("a")>>) }

ConcCall(position, m, committed) ==
    [pc |-> position, snapshots |-> m.snapshots,
     pending_updates |-> m.pending_updates, committed |-> committed]

InitConc ==
    /\ file \in LoadFiles
    /\ snapshots = Empty
    /\ pending_updates = Empty
    /\ config \in { [new_config(FALSE) EXCEPT !.conflict_resolution = s] :
                        s \in {"accept_new", "keep_old"} }
    /\ pc = "idle"
    /\ last = NoCall
    /\ run = 0
    /\ procs = [i \in Procs |-> ConcCall("start", Manager(Empty, Empty), FALSE)]
    /\ deciding = NoDecision

\* manager = SnapshotManager(snapshot_file)
ConcLoad(i) ==
    /\ procs[i].pc = "start"
    /\ procs' = [procs EXCEPT ![i] =
                    IF load_error(file) # "none"
                    THEN ConcCall("failed", Manager(Empty, Empty), FALSE)
                    ELSE ConcCall("loaded", new_manager(file), FALSE)]
    /\ UNCHANGED <<file, snapshots, pending_updates, config, pc, last, run, deciding>>

\* func(), _serialize_value, the comparison with the manager's baseline and,
\* for a new or accepted value, manager.update_snapshot
ConcEvaluate(i, result) ==
    LET m == Manager(procs[i].snapshots, procs[i].pending_updates)
        ser == serialize_value(result)
        staged == update_snapshot(m, ConcName(i), ser, [hash |-> result_hash(ser)])
    IN  /\ procs[i].pc = "loaded"
        /\ procs' = [procs EXCEPT ![i] =
              IF ~has_snapshot(m, ConcName(i))
              THEN ConcCall("staged", staged, FALSE)
              ELSE IF PyEq(get_snapshot(m, ConcName(i)), ser)
                   THEN ConcCall("passed", m, FALSE)
                   ELSE IF handle_conflict(config) = "accept"
                        THEN ConcCall("staged", staged, FALSE)
                        ELSE ConcCall("failed", m, FALSE)]
        /\ UNCHANGED <<file, snapshots, pending_updates, config, pc, last, run, deciding>>

\* commit_updates up to open(self.snapshot_file, 'w'), which empties the file
ConcOpen(i, wf) ==
    LET merged == Update(procs[i].snapshots, procs[i].pending_updates)
        m == Manager(merged, procs[i].pending_updates)
    IN  /\ procs[i].pc = "staged"
        /\ wf \in {"ok", "open_fails"}
        /\ IF wf = "open_fails"
           THEN /\ procs' = [procs EXCEPT ![i] = ConcCall("failed", m, FALSE)]
                /\ UNCHANGED file
           ELSE /\ procs' = [procs EXCEPT ![i] = ConcCall("opened", m, FALSE)]
                /\ file' = FileCorrupt
        /\ UNCHANGED <<snapshots, pending_updates, config, pc, last, run, deciding>>

\* json.dump(self.snapshots, f, ...), the close of the file and
\* self.pending_updates.clear()
ConcDump(i, wf) ==
    LET m == Manager(procs[i].snapshots, procs[i].pending_updates)
    IN  /\ procs[i].pc = "opened"
        /\ wf \in {"ok", "dump_fails"}
        /\ IF wf = "dump_fails"
           THEN /\ procs' = [procs EXCEPT ![i] = ConcCall("failed", m, FALSE)]
                /\ file' = FileCorrupt
           ELSE /\ procs' = [procs EXCEPT ![i] =
                                ConcCall("done", Manager(m.snapshots, Empty), TRUE)]
                /\ file' = FileOk(dump_snapshots(m.snapshots))
        /\ UNCHANGED <<snapshots, pending_updates, config, pc, last, run, deciding>>

NextConc ==
    \/ \E i \in Procs : ConcLoad(i)
    \/ \E i \in Procs, r \in ConcResults : ConcEvaluate(i, r)
    \/ \E i \in Procs, wf \in WriteOutcomes : ConcOpen(i, wf)
    \/ \E i \in Procs, wf \in WriteOutcomes : ConcDump(i, wf)

SpecConc == InitConc /\ [][NextConc]_vars

(* ------------- a mode change during a conflict decision --------------- *)

\* A host with threads: one thread evaluates @expect tests while another
\* calls set_conflict_resolution or auto_accept(True).  config is a module
\* global that nothing locks, and the interpreter can switch threads between
\* any two of the reads _handle_conflict makes of it, so the decision is
\* taken one read at a time (pc = "deciding", deciding.at the next read).

InitMode ==
    /\ file = FileMissing
    /\ snapshots = Empty
    /\ pending_updates = Empty
    /\ config \in {new_config(ci) : ci \in BOOLEAN}
    /\ pc = "idle"
    /\ last = NoCall
    /\ run = 0
    /\ procs = <<>>
    /\ deciding = NoDecision

\* the wrapper up to its comparison: a call with no conflict runs to its end,
\* a call with a conflict enters _handle_conflict
ModeEvaluate(test_name, result, wf) ==
    LET manager == new_manager(file)
        serialized_result ==
            IF result.t = "raise" THEN exception_value(result)
            ELSE serialize_value(result)
        o == Compared("expect", test_name, result, serialized_result, manager, file)
    IN  /\ pc = "idle"
        /\ IF load_error(file) = "none" /\ o.conflict
           THEN /\ wf = "ok"
                /\ snapshots' = manager.snapshots
                /\ pending_updates' = manager.pending_updates
                /\ last' = o
                /\ pc' = "deciding"
                /\ deciding' = [at |-> 1, seen |-> {config.conflict_resolution},
                                outcome |-> "none"]
                /\ UNCHANGED <<file, config, run, procs>>
           ELSE /\ Apply(wrapper(test_name, result, file, config, wf), wf)
                /\ UNCHANGED config

\* the next test of _handle_conflict: it returns (or raises, or starts to
\* prompt) when the value it reads now matches, goes on to the next test
\* otherwise, and returns None, which its caller takes for False, when the
\* last test does not match either
ModeRead(wf) ==
    LET k == deciding.at
        m == Manager(snapshots, pending_updates)
        matches == IF k = 1 THEN config.ci_mode
                   ELSE config.conflict_resolution = Reads[k]
        read == IF k = 1 THEN config
                ELSE [config EXCEPT !.ci_mode = FALSE, !.conflict_resolution = Reads[k]]
        post == IF matches THEN conflict(last, m, file, read, wf)
                ELSE reject([last EXCEPT !.decision = "reject"], m, file)
    IN  /\ pc = "deciding"
        /\ IF matches \/ k = Len(Reads)
           THEN /\ wf # "ok" => post.pending_updates # Empty
                /\ file' = post.file
                /\ snapshots' = post.snapshots
                /\ pending_updates' = post.pending_updates
                /\ pc' = post.pc
                /\ last' = post.last
                /\ deciding' = [deciding EXCEPT
                                  !.at = 0,
                                  !.outcome = IF post.pc = "prompt" THEN "input"
                                              ELSE post.last.decision]
           ELSE /\ wf = "ok"
                /\ deciding' = [deciding EXCEPT !.at = k + 1]
                /\ UNCHANGED <<file, snapshots, pending_updates, pc, last>>
        /\ UNCHANGED <<config, run, procs>>

\* the other thread: set_conflict_resolution(strategy), or auto_accept(True)
\* for strategy ACCEPT_NEW
ModeSet(strategy) ==
    /\ pc # "exited"
    /\ config' = [config EXCEPT !.conflict_resolution = strategy]
    /\ deciding' = IF pc = "deciding"
                   THEN [deciding EXCEPT !.seen = @ \cup {strategy}]
                   ELSE deciding
    /\ UNCHANGED <<file, snapshots, pending_updates, pc, last, run, procs>>

NextMode ==
    \/ \E n \in Names, r \in ConcResults, wf \in WriteOutcomes : ModeEvaluate(n, r, wf)
    \/ \E wf \in WriteOutcomes : ModeRead(wf)
    \/ \E r \in Responses, wf \in WriteOutcomes : Prompt(r, wf)
    \/ \E s \in ConflictResolution : ModeSet(s)

SpecMode == InitMode /\ [][NextMode]_vars

(* ------------------------------ claims ---------------------------------- *)

\* the step is a call of the expect wrapper (the primed last is its result)
WrapperCall == pc = "idle" /\ last'.engine = "expect"

\* the step is a call of either engine
EngineCall == pc = "idle" /\ last'.engine \in {"expect", "expect_inline"}

\* the step re-runs, through the expect wrapper, the test and computation of
\* the call before it, which ended in created, passed or updated
WrapperRerun ==
    /\ WrapperCall
    /\ last.engine = "expect"
    /\ last.report \in {"created", "passed", "updated"}
    /\ last'.name = last.name
    /\ last'.raw = last.raw

\* the normalized result of a computation
Normalized(raw) ==
    IF raw.t = "raise" THEN exception_value(raw) ELSE serialize_value(raw)

\* C1 - Creation: a call of the expect wrapper for a name the store has no
\* entry for, in any mode and with or without CI, whose write does not fail,
\* reports created; it commits exactly one new entry, for that name, whose
\* value is the normalized result and whose hash is the fingerprint of the
\* normalized result; the pending buffer is empty again and every other
\* entry is as it was.
C1_Creation ==
    [][ (WrapperCall /\ last'.name \notin DOMAIN load_snapshots(file)
                     /\ last'.exc.type # "OSError")
        => LET n == last'.name
               value == Normalized(last'.raw)
               entry == [value |-> value, hash |-> result_hash(value)]
               before == load_snapshots(file)
           IN  /\ last'.report = "created"
               /\ last'.writes = 1
               /\ snapshots' = Update(before, [x \in {n} |-> entry])
               /\ pending_updates' = Empty
               /\ file'.st = "ok"
               /\ DOMAIN file'.data = (DOMAIN before) \cup {n}
               /\ file'.data[n] = [value |-> json_dumps(value), hash |-> result_hash(value)]
               /\ \A m \in DOMAIN before : file'.data[m] = before[m] ]_vars

C1_Witness ==
    /\ last.engine = "expect" /\ last.report = "created" /\ ~last.had
    /\ config.conflict_resolution = "fail"
    /\ Cardinality(DOMAIN file.data) = 2

\* C2 - Idempotence: re-running a test through the expect wrapper with the
\* same result and mode = Fail finds no conflict, raises no mismatch failure
\* and leaves the store file as it is.
C2_Idempotence ==
    [][ (WrapperRerun /\ config.conflict_resolution = "fail")
        => /\ ~last'.conflict
           /\ last'.exc.type # "AssertionError"
           /\ file' = file ]_vars

\* C3 - every rejected conflict, in either engine, raises a mismatch failure
\* for the current test that carries the old stored value and the new
\* normalized value.
C3_RejectCarriesValues ==
    (last.conflict /\ last.decision \in {"reject", "raise"})
    => /\ last.exc.type = "AssertionError"
       /\ last.exc.test = last.name
       /\ last.exc.expected = last.existing
       /\ last.exc.got = last.ser

\* C4 - with CI off and mode = AcceptNew, a call of the expect wrapper whose
\* computation returns a value that conflicts with the baseline replaces the
\* entry's value and hash in the store file, raises nothing and returns the
\* computation's value; the next call with the same value finds no conflict.
C4_AcceptNew ==
    [][ /\ (WrapperCall /\ ~config.ci_mode
                        /\ config.conflict_resolution = "accept_new"
                        /\ last'.conflict /\ last'.raw.t # "raise"
                        /\ last'.exc.type # "OSError")
           => /\ last'.report = "updated"
              /\ last'.exc = NoExc
              /\ last'.ret = last'.raw
              /\ file'.st = "ok"
              /\ file'.data[last'.name] =
                    [value |-> json_dumps(last'.ser), hash |-> result_hash(last'.ser)]
        /\ (WrapperRerun /\ ~config.ci_mode
                         /\ config.conflict_resolution = "accept_new"
                         /\ last.report = "updated" /\ last.raw.t # "raise")
           => ~last'.conflict ]_vars

\* C5 - CI override: in every mode, a conflict met while the CI flag is set
\* is rejected: input() is never called, the call raises the mismatch failure
\* for its test, and the store file still holds the old value.
C5_CIOverride ==
    (last.conflict /\ config.ci_mode)
    => /\ last.decision = "reject"
       /\ last.prompts = 0
       /\ pc = "idle"
       /\ last.exc.type = "AssertionError"
       /\ last.exc.test = last.name
       /\ last.report = "none"
       /\ last.writes = 0
       /\ file.st = "ok"
       /\ last.name \in DOMAIN file.data
       /\ file.data[last.name].value = last.existing

C5_Witness ==
    /\ last.conflict /\ config.ci_mode
    /\ config.conflict_resolution = "accept_new"
    /\ last.engine = "expect"

\* C6 - while the CI flag is set no step changes the store file.
C6_CINeverWrites ==
    [][ config.ci_mode => file' = file ]_vars

\* C7 - when the computation raises, the value compared and stored is the
\* mapping with exactly the keys "exception" (class name) and "message"
\* (text); re-running the same failing computation with mode = Fail finds no
\* conflict, does not enter _handle_conflict, and reports passed.
C7_ExceptionSnapshot ==
    [][ /\ (WrapperCall /\ last'.raw.t = "raise")
           => LET d == PyDict(<<PyStr("exception"), PyStr("message")>>,
                              <<PyStr(last'.raw.s), last'.raw.items[1]>>)
              IN  /\ last'.ser = d
                  /\ last'.report \in {"created", "updated"}
                       => file'.data[last'.name] = [value |-> d, hash |-> [md5 |-> d]]
        /\ (WrapperRerun /\ last.raw.t = "raise"
                         /\ config.conflict_resolution = "fail")
           => /\ ~last'.conflict
              /\ last'.decision = "none"
              /\ last'.prompts = 0
              /\ last'.report = "passed"
              /\ file' = file ]_vars

C7_Witness ==
    /\ last.engine = "expect" /\ last.raw.t = "raise"
    /\ last.report = "passed"
    /\ config.conflict_resolution = "fail"

\* C8 - a call of the expect wrapper that reports created, passed or updated
\* returns the computation's original value when the computation returned,
\* and raises nothing when the computation raised.
C8_ReturnsOriginal ==
    (last.engine = "expect" /\ last.report \in {"created", "passed", "updated"})
    => /\ last.exc = NoExc
       /\ last.raw.t # "raise" => last.ret = last.raw

\* C9 - Atomic commit: when the write of a commit fails, the store file is
\* what it was before the commit and the pending buffer still holds the
\* update.
C9_AtomicCommit ==
    [][ (pc \in {"idle", "prompt"} /\ last'.exc.type = "OSError")
        => /\ file' = file
           /\ last'.name \in DOMAIN pending_updates' ]_vars

\* C10 - a call that finds the new value equal to the baseline, and a call
\* whose conflict is rejected, aborted or still being asked about, leave the
\* store file and the pending buffer of its manager as they were (a new
\* manager starts with an empty buffer).
C10_MutationConfined ==
    [][ (last'.engine # "none"
         /\ (last'.report = "passed"
             \/ last'.decision \in {"reject", "raise", "exit", "input"}))
        => /\ file' = file
           /\ last'.writes = 0
           /\ pending_updates' = (IF pc = "prompt" THEN pending_updates ELSE Empty)
           /\ snapshots' = (IF pc = "prompt" THEN snapshots ELSE load_snapshots(file))
      ]_vars

C10_Witness ==
    /\ last.conflict /\ last.decision = "reject" /\ last.prompts > 1
    /\ file.st = "ok"

\* C11 - every entry of the store file, of the loaded snapshots and of the
\* pending buffer has a hash equal to the fingerprint of the value of that
\* same entry.
HashFresh(m) == \A n \in DOMAIN m : m[n].hash = result_hash(m[n].value)

SameMapping(a, b) ==
    /\ a.t = "dict" /\ b.t = "dict"
    /\ {<<a.keys[i], a.items[i]>> : i \in DOMAIN a.keys}
         = {<<b.keys[i], b.items[i]>> : i \in DOMAIN b.keys}

C12_MappingOrder ==
    (last.had /\ SameMapping(last.existing, last.ser))
    => /\ ~last.conflict
       /\ last.decision = "none"
       /\ last.report = "passed"
       /\ result_hash(last.existing) = result_hash(last.ser)

C12_Witness ==
    /\ last.had /\ SameMapping(last.existing, last.ser)
    /\ last.existing.keys # last.ser.keys
    /\ last.engine = "expect"

\* C13 - no step removes a name from the baselines of the store file, and a
\* call for name n leaves the entry of every other name as it is.
C13_OthersKept ==
    [][ \A m \in DOMAIN load_snapshots(file) :
          /\ m \in DOMAIN load_snapshots(file')
          /\ m # last'.name => file'.data[m] = file.data[m] ]_vars

\* C15 - a call whose commit failed (the pending buffer is still filled)
\* raises OSError to its caller, which is not the AssertionError of a
\* mismatch, reports nothing, and leaves the process ready for the next call.
C15_WriteFailureSurfaced ==
    [][ (pc \in {"idle", "prompt"} /\ last'.engine # "none"
                                   /\ pending_updates' # Empty)
        => /\ last'.exc.type = "OSError"
           /\ last'.report = "none"
           /\ last'.ret = NoValue
           /\ pc' = "idle"
           /\ config' = config ]_vars

C15_Witness ==
    /\ last.exc.type = "OSError" /\ pc = "idle"
    /\ last.engine = "expect_inline"
    /\ pending_updates # Empty

\* C17 - a conflict in mode Interactive with CI off waits on input(); y
\* accepts, n rejects, q exits, every other answer asks again and changes
\* neither the store file, the manager nor the configuration; the call is
\* over exactly after an answer of y, n or q.
C17_PromptLoop ==
    [][ /\ (EngineCall /\ last'.conflict /\ ~config.ci_mode
                       /\ config.conflict_resolution = "interactive")
           => pc' = "prompt" /\ last'.prompts = 1 /\ last'.decision = "input"
        /\ (pc = "prompt" /\ last'.engine # "none")
           => LET a == lower(last'.answer)
              IN  /\ ~config.ci_mode
                  /\ config.conflict_resolution = "interactive"
                  /\ pc' # "prompt" <=> a \in {"y", "n", "q"}
                  /\ a = "y" => /\ last'.decision = "accept"
                                /\ pc' = "idle"
                                /\ last'.report = "updated"
                                   \/ last'.exc.type = "OSError"
                  /\ a = "n" => /\ last'.decision = "reject"
                                /\ pc' = "idle"
                                /\ last'.exc.type = "AssertionError"
                                /\ file' = file
                  /\ a = "q" => /\ last'.decision = "exit"
                                /\ pc' = "exited"
                                /\ last'.exc.type = "SystemExit"
                                /\ file' = file
                  /\ a \notin {"y", "n", "q"}
                       => /\ last'.decision = "input"
                          /\ last'.prompts = last.prompts + 1
                          /\ UNCHANGED <<file, snapshots, pending_updates, config>>
      ]_vars

C17_Witness ==
    /\ last.decision = "accept" /\ last.report = "updated"
    /\ last.prompts > 1 /\ last.answer = "Y"

\* C14 - a call that finds no usable store file is not aborted by the load:
\* a missing file and an unparseable file both load as the empty mapping,
\* the unparseable one with a warning, and the call goes on as for a name
\* with no baseline.
C14_LoadNeverAborts ==
    [][ (EngineCall /\ file.st # "ok")
        => /\ ~last'.had
           /\ last'.warned = (file.st # "missing")
           /\ last'.report = "created"
              \/ last'.exc.type \in {"OSError", "ValueError"} ]_vars

\* C18 - update_snapshot changes the pending buffer only, for its name only;
\* get_snapshot of a name in the pending buffer returns the staged value
\* whatever the loaded snapshots hold, falls back to the loaded snapshots, and
\* returns None for a name in neither; has_snapshot is true exactly for the
\* names in one of the two.
C18_StageGetHas ==
    [][ /\ last'.engine = "stage"
           => /\ file' = file
              /\ snapshots' = snapshots
              /\ DOMAIN pending_updates' = (DOMAIN pending_updates) \cup {last'.name}
              /\ pending_updates'[last'.name].value = last'.ser
              /\ \A n \in DOMAIN pending_updates :
                    n # last'.name => pending_updates'[n] = pending_updates[n]
        /\ last'.engine = "get"
           => LET n == last'.name
              IN  /\ n \in DOMAIN pending_updates
                       => last'.ret = pending_updates[n].value
                  /\ (n \notin DOMAIN pending_updates /\ n \in DOMAIN snapshots)
                       => last'.ret = snapshots[n].value
                  /\ (n \notin DOMAIN pending_updates /\ n \notin DOMAIN snapshots)
                       => last'.ret = PyNone
        /\ last'.engine = "has"
           => last'.had = (last'.name \in (DOMAIN pending_updates) \cup (DOMAIN snapshots))
      ]_vars

C18_Witness ==
    /\ last.engine = "get"
    /\ last.name \in DOMAIN pending_updates
    /\ last.name \in DOMAIN snapshots
    /\ last.name \in DOMAIN file.data
    /\ ~PyEq(snapshots[last.name].value, pending_updates[last.name].value)
    /\ last.ret = pending_updates[last.name].value

\* C19 - a commit that succeeds writes, once, the snapshots the manager
\* loaded overridden by every pending entry and empties the pending buffer;
\* unless an earlier write left the store file half-written, the file then
\* holds its earlier mapping overridden by the pending entries.  A commit
\* with nothing pending writes nothing and changes nothing.
C19_Commit ==
    [][ last'.engine = "commit"
        => /\ pending_updates = Empty
                => /\ UNCHANGED <<file, snapshots, pending_updates>>
                   /\ last'.writes = 0
                   /\ last'.exc = NoExc
           /\ (pending_updates # Empty /\ last'.exc = NoExc)
                => /\ last'.writes = 1
                   /\ pending_updates' = Empty
                   /\ snapshots' = Update(snapshots, pending_updates)
                   /\ file' = FileOk(dump_snapshots(Update(snapshots, pending_updates)))
                   /\ file.st # "corrupt"
                        => file'.data = Update(load_snapshots(file),
                                               dump_snapshots(pending_updates))
      ]_vars

C19_Witness ==
    /\ last.engine = "commit" /\ last.writes = 1 /\ last.exc = NoExc
    /\ pending_updates = Empty
    /\ Cardinality(DOMAIN file.data) = 2
    /\ \E n \in DOMAIN file.data : file.data[n].value # snapshots[n].value

\* C16 - once the user has answered q, the run is over: no later step
\* evaluates a test or touches the store file.
C16_AbortEndsRun ==
    [][ last.decision = "exit" => (last' = last /\ file' = file /\ pc' = pc) ]_vars

\* C20 - when both parallel calls have committed, the store file holds the
\* entry of each.
C20_NoLostUpdate ==
    (\A i \in DOMAIN procs : procs[i].pc = "done" /\ procs[i].committed)
        => (procs # <<>> =>
              /\ file.st = "ok"
              /\ \A i \in DOMAIN procs : ConcName(i) \in DOMAIN file.data)

\* C21 - what a call of _handle_conflict decided is what the decision
\* table gives for one of the modes that were in force during the call.
C21_ModeReadOnce ==
    deciding.outcome # "none"
        => \E mode \in deciding.seen :
              deciding.outcome
                = handle_conflict([config EXCEPT !.conflict_resolution = mode])

\* what an evaluation came to, in the terms both engines share: the line it
\* printed (created, passed, updated), a mismatch failure, a prompt, or none
\* of these
EngineOutcome(post) ==
    IF post.last.exc.type = "AssertionError" THEN "mismatch"
    ELSE IF post.pc = "prompt" THEN "prompt"
    ELSE post.last.report

\* C22 - in every state in which a test can be evaluated, the decorator
\* called for a name with a computation that returns or raises r and the
\* with-block of the same name that captures or raises r come to the same
\* outcome and leave the same store file, for every r, None included.
C22_EnginesEquivalent ==
    pc = "idle"
        => \A n \in Names, r \in Results, wf \in WriteOutcomes :
              LET a == wrapper(n, r, file, config, wf)
                  b == inline_exit(n, r, file, config, wf)
              IN  /\ EngineOutcome(a) = EngineOutcome(b)
                  /\ a.file = b.file

====
